---------------------------- MODULE Spec2Model ----------------------------
(***************************************************************************)
(* A model of the TCP server of src/server.py: the acceptor loop of main,  *)
(* one client_thread per admitted connection, the name counter, the client *)
(* cache (registry) and the file repository.                               *)
(*                                                                         *)
(* Text is modelled as sequences of one-character strings, so that strip,  *)
(* lower, startswith, partition, rstrip, join, splitlines and the format   *)
(* specifications are computed the way Python computes them.               *)
(***************************************************************************)
EXTENDS Integers, Sequences, FiniteSets, TLC

(***************************************************************************)
(* Bounds of the model.                                                    *)
(***************************************************************************)
\* acceptor scenario: connections opened besides the standing ones
MaxConns == 2
\* session scenario: connections opened besides the standing one
MaxSessions == 1
\* session scenario: command lines the peers send, over all sessions
MaxCmds == 1
\* repository scenario: command lines the peer sends
MaxGets == 2
\* repository scenario: changes made to the repository from outside the server
MaxEnv == 1

(***************************************************************************)
(* Program constants.                                                      *)
(***************************************************************************)
MAX_CLIENTS == 3
BUFF == 4096

Max(a, b) == IF a >= b THEN a ELSE b

\* connection identifiers, in the order accept() returns them
Conns == 1..Max((MAX_CLIENTS - 1) + MaxConns, MAX_CLIENTS + MaxSessions)

\* Python's None where a text is expected: no text, since a text is made of
\* one-character strings
None == <<"None">>

(***************************************************************************)
(* Text helpers (Python str methods).                                      *)
(***************************************************************************)
Upper == <<"A", "B", "C", "D", "E", "F", "G", "H", "I", "J", "K", "L", "M", "N", "O", "P", "Q", "R", "S", "T", "U", "V", "W", "X", "Y", "Z">>
Lowers == <<"a", "b", "c", "d", "e", "f", "g", "h", "i", "j", "k", "l", "m", "n", "o", "p", "q", "r", "s", "t", "u", "v", "w", "x", "y", "z">>
DigitChars == <<"0", "1", "2", "3", "4", "5", "6", "7", "8", "9">>

\* the characters str.strip() removes among those the model uses
Whitespace == {" ", "\t", "\r", "\n"}

IndexOf(ch, s) == IF \E i \in 1..Len(s) : s[i] = ch
                  THEN CHOOSE i \in 1..Len(s) : s[i] = ch /\ \A j \in 1..(i-1) : s[j] # ch
                  ELSE 0

\* str.lower(), one character
LowerChar(ch) == IF IndexOf(ch, Upper) > 0 THEN Lowers[IndexOf(ch, Upper)] ELSE ch

\* str.lower()
Lower(s) == [i \in 1..Len(s) |-> LowerChar(s[i])]

RECURSIVE LStripSet(_, _)
LStripSet(s, set) == IF s # <<>> /\ Head(s) \in set THEN LStripSet(Tail(s), set) ELSE s

RECURSIVE RStripSet(_, _)
RStripSet(s, set) == IF s # <<>> /\ s[Len(s)] \in set
                     THEN RStripSet(SubSeq(s, 1, Len(s) - 1), set) ELSE s

\* str.strip()
Strip(s) == RStripSet(LStripSet(s, Whitespace), Whitespace)

\* str.rstrip("\r\n")
RStripCRLF(s) == RStripSet(s, {"\r", "\n"})

\* str.startswith(prefix)
StartsWith(s, prefix) == Len(s) >= Len(prefix) /\ SubSeq(s, 1, Len(prefix)) = prefix

\* the third component of str.partition(" "): what follows the first space
PartitionAfterSpace(s) == IF IndexOf(" ", s) = 0 THEN <<>>
                          ELSE SubSeq(s, IndexOf(" ", s) + 1, Len(s))

RECURSIVE Digits(_)
\* decimal digits of a natural number (format "d")
Digits(n) == IF n < 10 THEN <<DigitChars[n + 1]>>
             ELSE Digits(n \div 10) \o <<DigitChars[(n % 10) + 1]>>

\* ch * n
Repeat(ch, n) == [i \in 1..n |-> ch]

\* format ":02d": zero-padded to at least two digits
Pad02(n) == Repeat("0", 2 - Len(Digits(n))) \o Digits(n)

\* format ":<w": left-aligned, space-padded to at least w characters
PadRight(s, w) == s \o Repeat(" ", w - Len(s))

RECURSIVE Join(_, _)
\* sep.join(lines)
Join(lines, sep) == IF lines = <<>> THEN <<>>
                    ELSE IF Len(lines) = 1 THEN lines[1]
                    ELSE lines[1] \o sep \o Join(Tail(lines), sep)

\* the positions of s that hold ch, in order, between 0 and Len(s) + 1
Cuts(s, ch) ==
    <<0>> \o SelectSeq([i \in 1..Len(s) |-> i], LAMBDA i : s[i] = ch) \o <<Len(s) + 1>>

\* str.split(ch): the pieces of s between the occurrences of ch
SplitOn(s, ch) ==
    [k \in 1..(Len(Cuts(s, ch)) - 1) |->
        SubSeq(s, Cuts(s, ch)[k] + 1, Cuts(s, ch)[k + 1] - 1)]

\* str.splitlines(): a trailing line break opens no further line
SplitLines(s) == IF s = <<>> THEN <<>>
                 ELSE IF s[Len(s)] = "\n" THEN SplitOn(SubSeq(s, 1, Len(s) - 1), "\n")
                 ELSE SplitOn(s, "\n")

\* the number a sequence of decimal digits denotes
RECURSIVE ParseNat(_)
ParseNat(s) == IF s = <<>> THEN 0
               ELSE 10 * ParseNat(SubSeq(s, 1, Len(s) - 1)) + (IndexOf(s[Len(s)], DigitChars) - 1)

(***************************************************************************)
(* Protocol text.                                                          *)
(***************************************************************************)
NamePrefix == <<"N", "A", "M", "E", " ">>
ClientPrefix == <<"C", "l", "i", "e", "n", "t">>
ExitVerb == <<"e", "x", "i", "t">>
ListVerb == <<"l", "i", "s", "t">>
StatusVerb == <<"s", "t", "a", "t", "u", "s">>
GetPrefix == <<"g", "e", "t", " ">>
ByeLine == <<"B", "Y", "E">>
AckSuffix == <<" ", "A", "C", "K">>
ExpectedNameLine == <<"E", "R", "R", "O", "R", " ", "E", "x", "p", "e", "c", "t", "e", "d", ":", " ", "N", "A", "M", "E", " ", "<", "y", "o", "u", "r", "_", "n", "a", "m", "e", ">">>
UsageLine == <<"E", "R", "R", "O", "R", " ", "U", "s", "a", "g", "e", ":", " ", "g", "e", "t", " ", "<", "f", "i", "l", "e", "n", "a", "m", "e", ">">>
NotFoundLine == <<"E", "R", "R", "O", "R", " ", "F", "i", "l", "e", " ", "n", "o", "t", " ", "f", "o", "u", "n", "d">>
FileSizePrefix == <<"F", "I", "L", "E", "S", "I", "Z", "E", " ">>
FileEndLine == <<"F", "I", "L", "E", "E", "N", "D">>
FilesPrefix == <<"F", "I", "L", "E", "S", " ">>
FilesEmptyLine == <<"F", "I", "L", "E", "S", " ", "<", "e", "m", "p", "t", "y", ">">>
FilesSep == <<" ", "|", " ">>
StatusBeginLine == <<"S", "T", "A", "T", "U", "S", "-", "B", "E", "G", "I", "N">>
StatusEndLine == <<"S", "T", "A", "T", "U", "S", "-", "E", "N", "D">>
NoClientsLine == <<"N", "o", " ", "c", "l", "i", "e", "n", "t", "s", " ", "c", "o", "n", "n", "e", "c", "t", "e", "d", " ", "y", "e", "t", ".">>
BusyLine == <<"B", "U", "S", "Y", " ", "S", "e", "r", "v", "e", "r", " ", "i", "s", " ", "a", "t", " ", "c", "a", "p", "a", "c", "i", "t", "y", " ", "(">> \o Digits(MAX_CLIENTS) \o <<")", ".", " ", "T", "r", "y", " ", "a", "g", "a", "i", "n", " ", "l", "a", "t", "e", "r", ".">>

\* the bytes safe_sendline hands to conn.sendall for a line
Encode(text) == text \o <<"\n">>

\* safe_sendline: the line is handed to sendall; a failure of sendall is
\* swallowed, so the caller goes on either way.  wire is the sequence of
\* payloads handed to sendall on the connection.
safe_sendline(wire, text) == Append(wire, Encode(text))

\* recvline: the bytes up to and including "\n", decoded, trailing CR/LF removed
recvline(raw) == RStripCRLF(raw \o <<"\n">>)

(***************************************************************************)
(* Name Assigner.                                                          *)
(***************************************************************************)
ClientName(n) == ClientPrefix \o Pad02(n)

\* the numeric suffix of a client name
NameNumber(nm) == ParseNat(SubSeq(nm, Len(ClientPrefix) + 1, Len(nm)))

\* variant: the increment of the counter is lost
assign_client_name_lost(counter) == [counter |-> counter, name |-> ClientName(counter + 1)]

assign_client_name(counter) == [counter |-> counter + 1, name |-> ClientName(counter + 1)]

(***************************************************************************)
(* Client cache (registry): a dict, kept in insertion order.               *)
(***************************************************************************)
\* the peer address of connection c
Addr(c) == [ip |-> <<"1", "0", ".", "0", ".", "0", ".">> \o Digits(c), port |-> 50000 + c]

\* finished_at None; the clock's readings start at 1
NoTime == 0

NewRecord(nm, addr, now) ==
    [name |-> nm, addr |-> addr, connected_at |-> now, finished_at |-> NoTime]

HasName(reg, nm) == \E i \in 1..Len(reg) : reg[i].name = nm

\* variant: a new key is put before the others
CacheSetFront(reg, rec) ==
    IF HasName(reg, rec.name)
    THEN [i \in 1..Len(reg) |-> IF reg[i].name = rec.name THEN rec ELSE reg[i]]
    ELSE <<rec>> \o reg

\* variant: records of finished sessions are dropped when one is added
CacheSetPruning(reg, rec) ==
    Append(SelectSeq(reg, LAMBDA r : r.finished_at = NoTime /\ r.name # rec.name), rec)

\* cache[name] = record: a new key is appended, an existing key keeps its place
CacheSet(reg, rec) ==
    IF HasName(reg, rec.name)
    THEN [i \in 1..Len(reg) |-> IF reg[i].name = rec.name THEN rec ELSE reg[i]]
    ELSE Append(reg, rec)

\* variant: the finally block stamps every record
MarkFinishedAll(reg, nm, now) ==
    [i \in 1..Len(reg) |-> [reg[i] EXCEPT !.finished_at = now]]

\* variant: the finally block leaves out the test of the name
MarkFinishedUnnamed(reg, nm, now) ==
    [i \in 1..Len(reg) |->
        IF reg[i].finished_at = NoTime
        THEN [reg[i] EXCEPT !.finished_at = now] ELSE reg[i]]

\* the finally block's update: set finished_at of the named record if it is None
MarkFinished(reg, nm, now) ==
    [i \in 1..Len(reg) |->
        IF reg[i].name = nm /\ reg[i].finished_at = NoTime
        THEN [reg[i] EXCEPT !.finished_at = now] ELSE reg[i]]

\* main's count of records with finished_at None
ActiveCount(reg) == Cardinality({i \in 1..Len(reg) : reg[i].finished_at = NoTime})

\* strftime("%Y-%m-%d %H:%M:%S") of a reading of the (logical) clock
FormatTime(t) == Digits(t)

StatusHeader ==
    PadRight(<<"N", "a", "m", "e">>, 10) \o <<" ">> \o PadRight(<<"I", "P", ":", "P", "o", "r", "t">>, 22) \o <<" ">>
        \o PadRight(<<"C", "o", "n", "n", "e", "c", "t", "e", "d", " ", "A", "t">>, 20) \o <<" ">> \o PadRight(<<"F", "i", "n", "i", "s", "h", "e", "d", " ", "A", "t">>, 20)

StatusRow(info) ==
    PadRight(info.name, 10) \o <<" ">>
        \o PadRight(info.addr.ip \o <<":">> \o Digits(info.addr.port), 22) \o <<" ">>
        \o PadRight(FormatTime(info.connected_at), 20) \o <<" ">>
        \o PadRight(IF info.finished_at # NoTime THEN FormatTime(info.finished_at) ELSE <<"-">>, 20)

\* variant: the report leaves out the newest record
render_status_short(reg) ==
    IF reg = <<>> THEN NoClientsLine
    ELSE Join(<<StatusHeader, Repeat("-", Len(StatusHeader))>>
                  \o [i \in 1..(Len(reg) - 1) |-> StatusRow(reg[i])], <<"\n">>)

\* render_status, evaluated on the cache as it is while cache_lock is held
render_status(reg) ==
    IF reg = <<>> THEN NoClientsLine
    ELSE Join(<<StatusHeader, Repeat("-", Len(StatusHeader))>>
                  \o [i \in 1..Len(reg) |-> StatusRow(reg[i])], <<"\n">>)

RECURSIVE SendLines(_, _)
SendLines(wire, lines) ==
    IF lines = <<>> THEN wire ELSE SendLines(safe_sendline(wire, Head(lines)), Tail(lines))

\* the status branch of the command loop, after render_status returned
StatusReply(wire, rep) ==
    safe_sendline(SendLines(safe_sendline(wire, StatusBeginLine), SplitLines(rep)),
                  StatusEndLine)

(***************************************************************************)
(* Repository and paths.  A path is the sequence of its components below   *)
(* the filesystem root; a component and a file's content are text.         *)
(***************************************************************************)
NoFile == <<"NoFile">>

\* REPO_DIR = Path.cwd() / "server_repo"
CwdDir == << <<"s", "r", "v">> >>
REPO_DIR == CwdDir \o << <<"s", "e", "r", "v", "e", "r", "_", "r", "e", "p", "o">> >>

\* the name _safe_join_repo falls back to
InvalidName == <<"_", "_", "I", "N", "V", "A", "L", "I", "D", "_", "_">>

\* base names of the files the environment keeps in or removes from REPO_DIR
RepoNames == { <<"a">>, InvalidName }
\* what such a file may hold
Contents == { <<"h", "i">>, <<"x">> }

\* files of the machine that the model never changes
SubFile == REPO_DIR \o << <<"s", "u", "b">>, <<"c">> >>
OutsideFile == CwdDir \o << <<"s">> >>

\* the content of the regular file at path p, or NoFile (Path.is_file is false)
FileAt(p, files) ==
    IF Len(p) = Len(REPO_DIR) + 1 /\ SubSeq(p, 1, Len(REPO_DIR)) = REPO_DIR
          /\ p[Len(p)] \in RepoNames
    THEN files[p[Len(p)]]
    ELSE IF p = SubFile THEN <<"s", "u", "b">>
    ELSE IF p = OutsideFile THEN <<"k", "e", "y">>
    ELSE NoFile

\* the components of a path text: empty components and "." are dropped
Components(text) ==
    SelectSeq(SplitOn(text, "/"), LAMBDA comp : comp # <<>> /\ comp # <<".">>)

\* base / text: an absolute text replaces the base
JoinPath(base, text) ==
    IF text # <<>> /\ Head(text) = "/" THEN Components(text) ELSE base \o Components(text)

RECURSIVE ResolveFrom(_, _)
\* Path.resolve(): ".." steps to the parent, and the root is its own parent
ResolveFrom(done, rest) ==
    IF rest = <<>> THEN done
    ELSE IF Head(rest) = <<".", ".">>
         THEN ResolveFrom(IF done = <<>> THEN <<>> ELSE SubSeq(done, 1, Len(done) - 1),
                          Tail(rest))
    ELSE ResolveFrom(Append(done, Head(rest)), Tail(rest))

Resolve(p) == ResolveFrom(<<>>, p)

\* Path.parents: every proper ancestor, the root included
Parents(p) == {SubSeq(p, 1, k) : k \in 0..(Len(p) - 1)}

\* Path.name: the last component, empty for the root
BaseName(p) == IF p = <<>> THEN <<>> ELSE p[Len(p)]

\* base / name where name may be empty
JoinName(base, nm) == IF nm = <<>> THEN base ELSE Append(base, nm)

safe_join_repo(filename) ==
    LET candidate == Resolve(JoinPath(REPO_DIR, filename))
        repo_root == Resolve(REPO_DIR)
    IN  IF repo_root \in Parents(candidate)
             \/ candidate = JoinName(repo_root, BaseName(candidate))
        THEN candidate
        ELSE Append(repo_root, InvalidName)

\* the characters of file names, in code point order
CharOrder ==
    <<" ", "-", ".", "0", "1", "2", "3", "4", "5", "6", "7", "8", "9", "A", "B", "C", "D", "E", "F", "G", "H", "I", "J", "K", "L", "M", "N", "O", "P", "Q", "R", "S", "T", "U", "V", "W", "X", "Y", "Z">>
    \o <<"_", "a", "b", "c", "d", "e", "f", "g", "h", "i", "j", "k", "l", "m", "n", "o", "p", "q", "r", "s", "t", "u", "v", "w", "x", "y", "z">>

RECURSIVE TextLeq(_, _)
\* s <= t in Python's order of strings
TextLeq(s, t) ==
    IF s = <<>> THEN TRUE
    ELSE IF t = <<>> THEN FALSE
    ELSE IF Head(s) = Head(t) THEN TextLeq(Tail(s), Tail(t))
    ELSE IndexOf(Head(s), CharOrder) < IndexOf(Head(t), CharOrder)

RECURSIVE SortedSeq(_)
\* the names of a set, ascending (list.sort())
SortedSeq(names) ==
    IF names = {} THEN <<>>
    ELSE LET least == CHOOSE n \in names : \A m \in names : TextLeq(n, m)
         IN  <<least>> \o SortedSeq(names \ {least})

\* list_repo_files: the regular files directly under REPO_DIR, sorted
list_repo_files(files) == SortedSeq({n \in RepoNames : files[n] # NoFile})

\* the list branch of the command loop
ListReply(wire, files) ==
    IF list_repo_files(files) # <<>>
    THEN safe_sendline(wire, FilesPrefix \o Join(list_repo_files(files), FilesSep))
    ELSE safe_sendline(wire, FilesEmptyLine)

RECURSIVE Chunks(_)
\* the successive results of f.read(BUFF) before the empty one
Chunks(content) ==
    IF content = <<>> THEN <<>>
    ELSE IF Len(content) <= BUFF THEN <<content>>
    ELSE <<SubSeq(content, 1, BUFF)>> \o Chunks(SubSeq(content, BUFF + 1, Len(content)))

(***************************************************************************)
(* What the peers send: raw lines, without the terminating "\n".           *)
(***************************************************************************)
\* handshake replies
HandshakeLines == { <<"N", "A", "M", "E", " ", "C", "l", "i", "e", "n", "t", "0", "1">>, <<"N", "A", "M", "E", " ">>, <<"N", "A", "M", "E">>, <<"n", "a", "m", "e", " ", "x">>, <<" ", "N", "A", "M", "E", " ", "x">>, <<>> }

\* lines sent to the command loop
CommandLines == { <<"g", "e", "t", " ", "a">>, <<"e", "x", "i", "t">>, <<"E", "x", "I", "t", "\r">>, <<"l", "i", "s", "t">>, <<"s", "t", "a", "t", "u", "s">>, <<"g", "e", "t">>, <<"g", "e", "t", " ", " ">>, <<"G", "E", "T", " ", "a">>,
                  <<"g", "e", "t", " ", ".", ".", "/", "s">>, <<"h", "e", "l", "l", "o">>, <<" ", "\t">>,
                  <<"g", "e", "t", " ", "s", "u", "b", "/", "c">> }

\* the handshake replies of a peer that says little
FewHandshakeLines == { <<"N", "A", "M", "E", " ", "C", "l", "i", "e", "n", "t", "0", "1">>, <<"n", "a", "m", "e", " ", "x">> }

(***************************************************************************)
(* State.                                                                  *)
(***************************************************************************)
VARIABLES
    client_counter, \* the global name counter
    cache,          \* the global client cache, in insertion order
    clock,          \* what datetime.now() returns next; each reading is later
                    \* than the one before
    repo,           \* the files directly under REPO_DIR: name -> content or NoFile
    conn,           \* main: the connection accept() returned last (0: none yet)
    accPc,          \* main: "accept", "count", "decide" or "reject"
    current,        \* main: the count of active records it took last
    sock,           \* per connection: the server's socket, "none", "open", "closed"
    peerOpen,       \* per connection: the peer has not closed its end
    tpc,            \* per connection: where its client_thread stands
    name,           \* client_thread: name
    line,           \* client_thread: line
    path,           \* handle_get: path
    report,         \* client_thread: report
    wire,           \* per connection: the payloads handed to sendall since the
                    \* last read, for as long as the server holds the socket
    left,           \* what the environment may still do: connections to open,
                    \* command lines to send, repository changes
    peers,          \* per connection: the lines its peer chooses from, as its
                    \* handshake reply and as commands, and whether it ever
                    \* closes its end on its own
    locks           \* client_counter_lock and cache_lock: who is inside the
                    \* with block of each (a connection's thread, or main)

vars == <<client_counter, cache, clock, repo, conn, accPc, current, sock,
          peerOpen, tpc, name, line, path, report, wire, left, peers, locks>>

\* main, where a thread is named
MainId == 0

\* both locks free
Unlocked == [counter |-> {}, cache |-> {}]

shared == <<client_counter, cache, clock>>
acceptor == <<conn, accPc, current>>
env == <<repo, left, peers>>

\* The server with the first n connections standing and every other one not
\* yet made.  Standing connection c was admitted c-th, got the c-th name and
\* record, answered the handshake with its name, and waits in the command
\* loop.  With n = 0 this is the state once main listens.
InitWith(n) ==
    /\ client_counter = n
    /\ cache = [c \in 1..n |-> NewRecord(ClientName(c), Addr(c), c)]
    /\ clock = n + 1
    /\ repo = [f \in RepoNames |-> IF f = InvalidName THEN NoFile ELSE <<"h", "i">>]
    /\ conn = n
    /\ accPc = "accept"
    /\ current = IF n = 0 THEN 0 ELSE n - 1
    /\ sock = [c \in Conns |-> IF c <= n THEN "open" ELSE "none"]
    /\ peerOpen = [c \in Conns |-> TRUE]
    /\ tpc = [c \in Conns |-> IF c <= n THEN "loop" ELSE "none"]
    /\ name = [c \in Conns |-> IF c <= n THEN ClientName(c) ELSE None]
    /\ line = [c \in Conns |-> IF c <= n THEN NamePrefix \o ClientName(c) ELSE None]
    /\ path = [c \in Conns |-> <<>>]
    /\ report = [c \in Conns |-> None]
    /\ locks = Unlocked
    /\ wire = [c \in Conns |->
                 IF c <= n THEN safe_sendline(<<>>, NamePrefix \o ClientName(c)) ELSE <<>>]

\* a peer that answers the handshake with one of the lines given, sends no
\* command and keeps its end open
Quiet(lines) == [handshake |-> lines, command |-> {}, closes |-> FALSE]

\* the acceptor scenario: MAX_CLIENTS - 1 sessions stand, their peers idle, and
\* further connections arrive whose peers answer the handshake at most
Init ==
    /\ InitWith(MAX_CLIENTS - 1)
    /\ left = [conns |-> MaxConns, lines |-> 0, changes |-> 0]
    /\ peers = [c \in Conns |-> Quiet(FewHandshakeLines)]

\* the session scenario: MAX_CLIENTS sessions stand; the peer of the first
\* sends every kind of command line, the peer of the second may close, and
\* the peers of the connections that arrive answer the handshake at most
InitSessions ==
    /\ InitWith(MAX_CLIENTS)
    /\ left = [conns |-> MaxSessions, lines |-> MaxCmds, changes |-> 0]
    /\ peers = [c \in Conns |->
                 IF c = 1 THEN [handshake |-> {}, command |-> CommandLines, closes |-> FALSE]
                 ELSE IF c < MAX_CLIENTS THEN [Quiet({}) EXCEPT !.closes = TRUE]
                 ELSE Quiet(FewHandshakeLines)]

\* the repository scenario: MAX_CLIENTS - 1 sessions stand, their peers idle;
\* the peer of the next connection sends every kind of line and may close,
\* the repository changes under it, and one more connection arrives
InitRepo ==
    /\ InitWith(MAX_CLIENTS - 1)
    /\ left = [conns |-> 2, lines |-> MaxGets, changes |-> MaxEnv]
    /\ peers = [c \in Conns |->
                 IF c = MAX_CLIENTS
                 THEN [handshake |-> HandshakeLines, command |-> CommandLines, closes |-> TRUE]
                 ELSE Quiet({NamePrefix \o ClientName(c)})]

(***************************************************************************)
(* main: the acceptor loop.                                                *)
(***************************************************************************)
\* conn, addr = s.accept()
Accept ==
    /\ accPc = "accept"
    /\ left.conns > 0
    /\ left' = [left EXCEPT !.conns = @ - 1]
    /\ conn' = conn + 1
    /\ sock' = [sock EXCEPT ![conn + 1] = "open"]
    /\ accPc' = "count"
    /\ UNCHANGED <<locks, shared, repo, peers, current, peerOpen, tpc, name, line, path, report,
                   wire>>

\* with cache_lock: current = sum(...)
CountActive ==
    /\ accPc = "count"
    /\ current' = ActiveCount(cache)
    /\ accPc' = "decide"
    /\ UNCHANGED <<locks, shared, env, conn, sock, peerOpen, tpc, name, line, path, report, wire>>

\* variant: the capacity test is off by one
AtCapacityEarly(count) == count >= MAX_CLIENTS - 1

\* the capacity test of main
AtCapacity(count) == count >= MAX_CLIENTS

\* variant: a name is taken for the connection before it is turned away
RejectSendNamed ==
    /\ accPc = "decide"
    /\ AtCapacity(current)
    /\ client_counter' = assign_client_name(client_counter).counter
    /\ wire' = [wire EXCEPT ![conn] = safe_sendline(wire[conn], BusyLine)]
    /\ accPc' = "reject"
    /\ UNCHANGED <<locks, cache, clock, env, conn, current, sock, peerOpen, tpc, name, line, path,
                   report>>

\* at capacity: safe_sendline(conn, "BUSY ...")
RejectSend ==
    /\ accPc = "decide"
    /\ AtCapacity(current)
    /\ wire' = [wire EXCEPT ![conn] = safe_sendline(wire[conn], BusyLine)]
    /\ accPc' = "reject"
    /\ UNCHANGED <<locks, shared, env, conn, current, sock, peerOpen, tpc, name, line, path,
                   report>>

\* finally: conn.close(); continue
RejectClose ==
    /\ accPc = "reject"
    /\ sock' = [sock EXCEPT ![conn] = "closed"]
    /\ peerOpen' = [peerOpen EXCEPT ![conn] = FALSE]
    /\ wire' = [wire EXCEPT ![conn] = <<>>]
    /\ accPc' = "accept"
    /\ UNCHANGED <<locks, shared, env, conn, current, tpc, name, line, path, report>>

\* variant: main runs client_thread itself instead of starting a thread
SpawnInline ==
    /\ accPc = "decide"
    /\ ~AtCapacity(current)
    /\ tpc' = [tpc EXCEPT ![conn] = "assign"]
    /\ accPc' = "serving"
    /\ UNCHANGED <<locks, shared, env, conn, current, sock, peerOpen, name, line, path,
                   report, wire>>

\* otherwise: threading.Thread(target=client_thread, ...).start()
Spawn ==
    /\ accPc = "decide"
    /\ ~AtCapacity(current)
    /\ tpc' = [tpc EXCEPT ![conn] = "assign"]
    /\ accPc' = "accept"
    /\ UNCHANGED <<locks, shared, env, conn, current, sock, peerOpen, name, line, path, report,
                   wire>>

(***************************************************************************)
(* client_thread.                                                          *)
(***************************************************************************)
\* name = assign_client_name()
Assign(c) ==
    /\ tpc[c] = "assign"
    /\ client_counter' = assign_client_name(client_counter).counter
    /\ name' = [name EXCEPT ![c] = assign_client_name(client_counter).name]
    /\ tpc' = [tpc EXCEPT ![c] = "register"]
    /\ UNCHANGED <<locks, cache, clock, env, acceptor, sock, peerOpen, line, path, report, wire>>

\* with cache_lock: cache[name] = {...}
Register(c) ==
    /\ tpc[c] = "register"
    /\ cache' = CacheSet(cache, NewRecord(name[c], Addr(c), clock))
    /\ clock' = clock + 1
    /\ tpc' = [tpc EXCEPT ![c] = "handshake"]
    /\ UNCHANGED <<locks, client_counter, env, acceptor, sock, peerOpen, name, line, path,
                   report, wire>>

\* variant: the handshake test leaves out the space after NAME
HandshakeFailsNoSpace(ln) == ln = None \/ ~StartsWith(ln, <<"N", "A", "M", "E">>)

\* the handshake test: line is None or does not start with "NAME "
HandshakeFails(ln) == ln = None \/ ~StartsWith(ln, NamePrefix)

\* where the thread goes after the handshake line ln
HandshakeNext(ln) == IF HandshakeFails(ln) THEN "finally" ELSE "loop"

\* what the thread has sent once the handshake line ln is dealt with
HandshakeWire(w, nm, ln) ==
    IF HandshakeFails(ln)
    THEN safe_sendline(safe_sendline(w, NamePrefix \o nm), ExpectedNameLine)
    ELSE safe_sendline(w, NamePrefix \o nm)

\* safe_sendline(conn, f"NAME {name}"); line = recvline(conn); the test of line
Handshake(c) ==
    /\ tpc[c] = "handshake"
    /\ \E ln \in IF peerOpen[c] THEN {recvline(raw) : raw \in peers[c].handshake}
                 ELSE {None} :
          /\ line' = [line EXCEPT ![c] = ln]
          /\ wire' = [wire EXCEPT ![c] = HandshakeWire(wire[c], name[c], ln)]
          /\ tpc' = [tpc EXCEPT ![c] = HandshakeNext(ln)]
    /\ UNCHANGED <<locks, shared, env, acceptor, sock, peerOpen, name, path, report>>

\* cmd = line.strip()
Cmd(ln) == Strip(ln)

\* the filename of a get command: cmd.partition(" ")[2].strip()
GetFilename(cmd) == Strip(PartitionAfterSpace(cmd))

\* variant: the verbs are compared without lower-casing the command
BranchCaseSensitive(ln) ==
    LET cmd == Cmd(ln)
    IN  IF ln = None THEN "eof"
        ELSE IF cmd = <<>> THEN "blank"
        ELSE IF cmd = ExitVerb THEN "exit"
        ELSE IF cmd = ListVerb THEN "list"
        ELSE IF StartsWith(cmd, GetPrefix)
             THEN (IF GetFilename(cmd) = <<>> THEN "usage" ELSE "get")
        ELSE IF cmd = StatusVerb THEN "status"
        ELSE "echo"

\* the branch of the command loop a line takes
Branch(ln) ==
    LET cmd == Cmd(ln)
        low == Lower(cmd)
    IN  IF ln = None THEN "eof"
        ELSE IF cmd = <<>> THEN "blank"
        ELSE IF low = ExitVerb THEN "exit"
        ELSE IF low = ListVerb THEN "list"
        ELSE IF StartsWith(low, GetPrefix)
             THEN (IF GetFilename(cmd) = <<>> THEN "usage" ELSE "get")
        ELSE IF low = StatusVerb THEN "status"
        ELSE "echo"

\* handle_get up to its first send or its return: the path and is_file()
GetPath(ln) == safe_join_repo(GetFilename(Cmd(ln)))

\* variant: a read that returns None is tried again
LoopNextRetry(br, ln, files) ==
    CASE br = "exit" -> "finally"
      [] br = "status" -> "status_send"
      [] br = "get" -> IF FileAt(GetPath(ln), files) = NoFile THEN "loop" ELSE "get_stat"
      [] OTHER -> "loop"

\* where the thread goes once the branch br of line ln has run up to its next
\* blocking or locking point
LoopNext(br, ln, files) ==
    CASE br \in {"eof", "exit"} -> "finally"
      [] br = "status" -> "status_send"
      [] br = "get" -> IF FileAt(GetPath(ln), files) = NoFile THEN "loop" ELSE "get_stat"
      [] OTHER -> "loop"

\* what the branch br of line ln sends before that point
LoopWire(br, ln, files) ==
    CASE br = "exit" -> safe_sendline(<<>>, ByeLine)
      [] br = "list" -> ListReply(<<>>, files)
      [] br = "usage" -> safe_sendline(<<>>, UsageLine)
      [] br = "get" -> IF FileAt(GetPath(ln), files) = NoFile
                       THEN safe_sendline(<<>>, NotFoundLine) ELSE <<>>
      [] br = "echo" -> safe_sendline(<<>>, Cmd(ln) \o AckSuffix)
      [] OTHER -> <<>>

\* one turn of the while loop: line = recvline(conn) and the dispatch of line.
\* The status branch takes its report under cache_lock in this step.
CommandLoop(c) ==
    /\ tpc[c] = "loop"
    /\ \E ln \in IF peerOpen[c]
                 THEN (IF left.lines > 0
                       THEN {recvline(raw) : raw \in peers[c].command} ELSE {})
                 ELSE {None} :
          LET br == Branch(ln)
          IN  /\ line' = [line EXCEPT ![c] = ln]
              /\ left' = [left EXCEPT !.lines = IF ln = None THEN @ ELSE @ - 1]
              /\ tpc' = [tpc EXCEPT ![c] = LoopNext(br, ln, repo)]
              /\ wire' = [wire EXCEPT ![c] = LoopWire(br, ln, repo)]
              /\ path' = [path EXCEPT ![c] = IF br = "get" THEN GetPath(ln) ELSE @]
              /\ report' = [report EXCEPT ![c] =
                    IF br = "status" THEN render_status(cache) ELSE @]
    /\ UNCHANGED <<locks, shared, repo, peers, acceptor, sock, peerOpen, name>>

\* the sends of the status branch: STATUS-BEGIN, the report's lines, STATUS-END
StatusSend(c) ==
    /\ tpc[c] = "status_send"
    /\ wire' = [wire EXCEPT ![c] = StatusReply(wire[c], report[c])]
    /\ tpc' = [tpc EXCEPT ![c] = "loop"]
    /\ UNCHANGED <<locks, shared, env, acceptor, sock, peerOpen, name, line, path, report>>

\* variant: the error of path.stat() ends the thread past its finally block
StatNextUncaught(content) == IF content = NoFile THEN "done" ELSE "get_stream"

\* where handle_get goes at path.stat(): a file that is gone raises out of
\* handle_get and of the command loop, into the finally block
StatNext(content) == IF content = NoFile THEN "finally" ELSE "get_stream"

\* handle_get: size = path.stat().st_size; safe_sendline(conn, f"FILESIZE {size}")
GetStat(c) ==
    /\ tpc[c] = "get_stat"
    /\ tpc' = [tpc EXCEPT ![c] = StatNext(FileAt(path[c], repo))]
    /\ wire' = [wire EXCEPT ![c] =
            IF FileAt(path[c], repo) = NoFile THEN @
            ELSE safe_sendline(@, FileSizePrefix \o Digits(Len(FileAt(path[c], repo))))]
    /\ UNCHANGED <<locks, shared, env, acceptor, sock, peerOpen, name, line, path, report>>

\* the try block of handle_get with the first sent chunks delivered to
\* sendall; sendall raising on a later chunk, or open() raising, ends the
\* block without FILEEND
StreamWire(w, content, sent) ==
    IF content = NoFile THEN w
    ELSE IF sent < Len(Chunks(content)) THEN w \o SubSeq(Chunks(content), 1, sent + 1)
    ELSE safe_sendline(w \o Chunks(content), FileEndLine)

\* handle_get: open, read and send the chunks, FILEEND
GetStream(c) ==
    /\ tpc[c] = "get_stream"
    /\ \E sent \in IF peerOpen[c] \/ FileAt(path[c], repo) = NoFile
                   THEN {IF FileAt(path[c], repo) = NoFile THEN 0
                         ELSE Len(Chunks(FileAt(path[c], repo)))}
                   ELSE 0..Len(Chunks(FileAt(path[c], repo))) :
          wire' = [wire EXCEPT ![c] = StreamWire(@, FileAt(path[c], repo), sent)]
    /\ tpc' = [tpc EXCEPT ![c] = "loop"]
    /\ UNCHANGED <<locks, shared, env, acceptor, sock, peerOpen, name, line, path, report>>

\* finally: with cache_lock: mark the record finished
Finally(c) ==
    /\ tpc[c] = "finally"
    /\ cache' = MarkFinished(cache, name[c], clock)
    /\ clock' = IF cache' # cache THEN clock + 1 ELSE clock
    /\ tpc' = [tpc EXCEPT ![c] = "close"]
    /\ UNCHANGED <<locks, client_counter, env, acceptor, sock, peerOpen, name, line, path,
                   report, wire>>

\* finally: conn.close(); the thread ends and its locals with it
Close(c) ==
    /\ tpc[c] = "close"
    /\ sock' = [sock EXCEPT ![c] = "closed"]
    /\ peerOpen' = [peerOpen EXCEPT ![c] = FALSE]
    /\ tpc' = [tpc EXCEPT ![c] = "done"]
    /\ name' = [name EXCEPT ![c] = None]
    /\ line' = [line EXCEPT ![c] = None]
    /\ path' = [path EXCEPT ![c] = <<>>]
    /\ report' = [report EXCEPT ![c] = None]
    /\ wire' = [wire EXCEPT ![c] = <<>>]
    /\ UNCHANGED <<locks, shared, env, acceptor>>

(***************************************************************************)
(* The environment.                                                        *)
(***************************************************************************)
\* the peer of an open connection closes its end
PeerClose(c) ==
    /\ sock[c] = "open"
    /\ peerOpen[c]
    /\ peers[c].closes
    /\ tpc[c] \in {"handshake", "loop", "get_stream"}
    /\ peerOpen' = [peerOpen EXCEPT ![c] = FALSE]
    /\ UNCHANGED <<locks, shared, env, acceptor, sock, tpc, name, line, path, report, wire>>

\* a file of REPO_DIR is removed or rewritten from outside the server
RepoChange ==
    /\ left.changes > 0
    /\ \E n \in RepoNames, content \in Contents \cup {NoFile} :
          /\ content # repo[n]
          /\ repo' = [repo EXCEPT ![n] = content]
    /\ left' = [left EXCEPT !.changes = @ - 1]
    /\ UNCHANGED <<locks, shared, peers, acceptor, sock, peerOpen, tpc, name, line, path, report,
                   wire>>

\* the acceptor, and a session's start, handshake and end
NextAccept ==
    \/ Accept
    \/ CountActive
    \/ RejectSend
    \/ RejectClose
    \/ Spawn
    \/ \E c \in Conns : Assign(c)
    \/ \E c \in Conns : Register(c)
    \/ \E c \in Conns : Handshake(c)
    \/ \E c \in Conns : Finally(c)
    \/ \E c \in Conns : Close(c)

\* the server whose repository no one changes
NextSessions ==
    \/ NextAccept
    \/ \E c \in Conns : CommandLoop(c)
    \/ \E c \in Conns : StatusSend(c)
    \/ \E c \in Conns : GetStat(c)
    \/ \E c \in Conns : GetStream(c)
    \/ \E c \in Conns : PeerClose(c)

Next ==
    \/ NextSessions
    \/ RepoChange

\* the acceptor scenario: no line reaches a command loop and no peer closes
Spec == Init /\ [][NextAccept]_vars

\* the session scenario
SpecSessions == InitSessions /\ [][NextSessions]_vars

\* the repository scenario
SpecRepo == InitRepo /\ [][Next]_vars

(***************************************************************************)
(* The with blocks, step by step.  In the actions above a with block is    *)
(* one step; here a thread enters the block when the lock is free, runs    *)
(* the block's body, and leaves the block in a step of its own, so that    *)
(* the states in which a lock is held can be told from the others.         *)
(***************************************************************************)
\* the lock is free
Free(lock) == lock = {}

\* main: with cache_lock: current = sum(...)
CountLock ==
    /\ accPc = "count"
    /\ Free(locks.cache)
    /\ locks' = [locks EXCEPT !.cache = {MainId}]
    /\ current' = ActiveCount(cache)
    /\ accPc' = "count_locked"
    /\ UNCHANGED <<shared, env, conn, sock, peerOpen, tpc, name, line, path, report, wire>>

\* main: the end of the with block
CountUnlock ==
    /\ accPc = "count_locked"
    /\ locks' = [locks EXCEPT !.cache = {}]
    /\ accPc' = "decide"
    /\ UNCHANGED <<shared, env, conn, current, sock, peerOpen, tpc, name, line, path,
                   report, wire>>

\* assign_client_name: with client_counter_lock: the increment and the name
AssignLock(c) ==
    /\ tpc[c] = "assign"
    /\ Free(locks.counter)
    /\ locks' = [locks EXCEPT !.counter = {c}]
    /\ client_counter' = assign_client_name(client_counter).counter
    /\ name' = [name EXCEPT ![c] = assign_client_name(client_counter).name]
    /\ tpc' = [tpc EXCEPT ![c] = "assign_locked"]
    /\ UNCHANGED <<cache, clock, env, acceptor, sock, peerOpen, line, path, report, wire>>

\* assign_client_name: the return out of the with block
AssignUnlock(c) ==
    /\ tpc[c] = "assign_locked"
    /\ locks' = [locks EXCEPT !.counter = {}]
    /\ tpc' = [tpc EXCEPT ![c] = "register"]
    /\ UNCHANGED <<shared, env, acceptor, sock, peerOpen, name, line, path, report, wire>>

\* client_thread: with cache_lock: cache[name] = {...}
RegisterLock(c) ==
    /\ tpc[c] = "register"
    /\ Free(locks.cache)
    /\ locks' = [locks EXCEPT !.cache = {c}]
    /\ cache' = CacheSet(cache, NewRecord(name[c], Addr(c), clock))
    /\ clock' = clock + 1
    /\ tpc' = [tpc EXCEPT ![c] = "register_locked"]
    /\ UNCHANGED <<client_counter, env, acceptor, sock, peerOpen, name, line, path,
                   report, wire>>

\* variant: the with block also holds the handshake that follows it
RegisterUnlockLate(c) ==
    /\ tpc[c] = "register_locked"
    /\ tpc' = [tpc EXCEPT ![c] = "handshake"]
    /\ UNCHANGED <<locks, shared, env, acceptor, sock, peerOpen, name, line, path, report,
                   wire>>

\* client_thread: the end of the with block
RegisterUnlock(c) ==
    /\ tpc[c] = "register_locked"
    /\ locks' = [locks EXCEPT !.cache = {}]
    /\ tpc' = [tpc EXCEPT ![c] = "handshake"]
    /\ UNCHANGED <<shared, env, acceptor, sock, peerOpen, name, line, path, report, wire>>

\* one turn of the while loop up to a with block: line = recvline(conn) and
\* the dispatch of line; the status branch stops before render_status
ReadCommand(c) ==
    /\ tpc[c] = "loop"
    /\ \E ln \in IF peerOpen[c]
                 THEN (IF left.lines > 0
                       THEN {recvline(raw) : raw \in peers[c].command} ELSE {})
                 ELSE {None} :
          LET br == Branch(ln)
          IN  /\ line' = [line EXCEPT ![c] = ln]
              /\ left' = [left EXCEPT !.lines = IF ln = None THEN @ ELSE @ - 1]
              /\ tpc' = [tpc EXCEPT ![c] =
                    IF br = "status" THEN "render" ELSE LoopNext(br, ln, repo)]
              /\ wire' = [wire EXCEPT ![c] = LoopWire(br, ln, repo)]
              /\ path' = [path EXCEPT ![c] = IF br = "get" THEN GetPath(ln) ELSE @]
    /\ UNCHANGED <<locks, shared, repo, peers, acceptor, sock, peerOpen, name, report>>

\* render_status: with cache_lock: the report
RenderLock(c) ==
    /\ tpc[c] = "render"
    /\ Free(locks.cache)
    /\ locks' = [locks EXCEPT !.cache = {c}]
    /\ report' = [report EXCEPT ![c] = render_status(cache)]
    /\ tpc' = [tpc EXCEPT ![c] = "render_locked"]
    /\ UNCHANGED <<shared, env, acceptor, sock, peerOpen, name, line, path, wire>>

\* render_status: the return out of the with block
RenderUnlock(c) ==
    /\ tpc[c] = "render_locked"
    /\ locks' = [locks EXCEPT !.cache = {}]
    /\ tpc' = [tpc EXCEPT ![c] = "status_send"]
    /\ UNCHANGED <<shared, env, acceptor, sock, peerOpen, name, line, path, report, wire>>

\* finally: with cache_lock: mark the record finished
FinallyLock(c) ==
    /\ tpc[c] = "finally"
    /\ Free(locks.cache)
    /\ locks' = [locks EXCEPT !.cache = {c}]
    /\ cache' = MarkFinished(cache, name[c], clock)
    /\ clock' = IF cache' # cache THEN clock + 1 ELSE clock
    /\ tpc' = [tpc EXCEPT ![c] = "finally_locked"]
    /\ UNCHANGED <<client_counter, env, acceptor, sock, peerOpen, name, line, path,
                   report, wire>>

\* finally: the end of the with block
FinallyUnlock(c) ==
    /\ tpc[c] = "finally_locked"
    /\ locks' = [locks EXCEPT !.cache = {}]
    /\ tpc' = [tpc EXCEPT ![c] = "close"]
    /\ UNCHANGED <<shared, env, acceptor, sock, peerOpen, name, line, path, report, wire>>

\* the command lines of the lock scenario
LockCommandLines == { <<"s", "t", "a", "t", "u", "s">>, <<"g", "e", "t", " ", "a">>, <<"e", "x", "i", "t">> }

\* the lock scenario: MAX_CLIENTS - 1 sessions stand, their peers idle; the
\* peer of the next connection answers the handshake, sends commands and may
\* close; one more connection arrives
InitLocks ==
    /\ InitWith(MAX_CLIENTS - 1)
    /\ left = [conns |-> 2, lines |-> MaxCmds, changes |-> 0]
    /\ peers = [c \in Conns |->
                 IF c = MAX_CLIENTS
                 THEN [handshake |-> FewHandshakeLines, command |-> LockCommandLines,
                       closes |-> TRUE]
                 ELSE Quiet({NamePrefix \o ClientName(c)})]

\* the steps main takes without waiting for a connection
MainStep ==
    \/ CountLock
    \/ CountUnlock
    \/ RejectSend
    \/ RejectClose
    \/ Spawn

\* the steps the thread of connection c takes without waiting for its peer
ThreadStep(c) ==
    \/ AssignLock(c)
    \/ AssignUnlock(c)
    \/ RegisterLock(c)
    \/ RegisterUnlock(c)
    \/ RenderLock(c)
    \/ RenderUnlock(c)
    \/ StatusSend(c)
    \/ GetStat(c)
    \/ GetStream(c)
    \/ FinallyLock(c)
    \/ FinallyUnlock(c)
    \/ Close(c)

\* the reads of the thread of connection c
ThreadRead(c) ==
    \/ Handshake(c)
    \/ ReadCommand(c)

\* a read on a connection whose peer has closed: recv returns at once
ReadEof(c) == ~peerOpen[c] /\ ThreadRead(c)

NextLocks ==
    \/ Accept
    \/ MainStep
    \/ \E c \in Conns : ThreadStep(c)
    \/ \E c \in Conns : ThreadRead(c)
    \/ \E c \in Conns : PeerClose(c)

\* every thread that can run does run: main and each client_thread are
\* threads of the interpreter, and a recv on a closed connection returns
Fairness ==
    /\ WF_vars(MainStep)
    /\ \A c \in Conns : WF_vars(ThreadStep(c)) /\ WF_vars(ReadEof(c))

\* the lock scenario, fairly scheduled
SpecLocks == InitLocks /\ [][NextLocks]_vars /\ Fairness

(***************************************************************************)
(* Properties.                                                             *)
(***************************************************************************)
\* the positions of the records whose finished_at is unset
Unfinished(reg) == {i \in 1..Len(reg) : reg[i].finished_at = NoTime}

\* the acceptor takes the step that sends BUSY, or the one that closes after it
RejectStep ==
    \/ accPc = "decide" /\ accPc' = "reject"
    \/ accPc = "reject" /\ accPc' = "accept"

\* C1: in every reachable state, under any interleaving of main and the
\* session threads, at most MAX_CLIENTS records have finished_at unset.
CapacityNeverExceeded == Cardinality(Unfinished(cache)) <= MAX_CLIENTS

\* C2: the count main takes is the number of records with finished_at unset at
\* that moment, and a connection counted below MAX_CLIENTS is not sent BUSY, is
\* not closed, and gets a session thread, whatever the number of earlier records.
AdmittedBelowCapacity ==
    [][/\ (accPc = "count" /\ accPc' = "decide")
             => current' = Cardinality(Unfinished(cache))
       /\ (accPc = "decide" /\ accPc' # "decide" /\ current < MAX_CLIENTS)
             => /\ accPc' = "accept"
                /\ tpc[conn] = "none" /\ tpc'[conn] = "assign"
                /\ wire'[conn] = <<>>
                /\ sock'[conn] = "open"]_vars

\* a connection was admitted when the cache already held MAX_CLIENTS records,
\* one of them finished: the slot of an ended session was counted free
SlotReused ==
    /\ accPc = "accept"
    /\ conn > 0
    /\ tpc[conn] = "assign"
    /\ Len(cache) >= MAX_CLIENTS
    /\ Cardinality(Unfinished(cache)) < MAX_CLIENTS

\* C3: the steps that reject a connection change neither the cache nor the name
\* counter, start no thread, and leave every session's variables and every
\* other connection alone.
RejectChangesNothing ==
    [][RejectStep =>
          /\ UNCHANGED <<client_counter, cache, clock, tpc, name, line, path, report>>
          /\ \A c \in Conns \ {conn} : wire'[c] = wire[c] /\ sock'[c] = sock[c]]_vars

\* a connection was rejected: BUSY was its only line, it is closed, no thread
\* ever ran for it, while MAX_CLIENTS sessions stay active
Rejected ==
    /\ accPc = "accept"
    /\ conn > 0
    /\ sock[conn] = "closed"
    /\ tpc[conn] = "none"
    /\ Cardinality(Unfinished(cache)) = MAX_CLIENTS

\* the names held by running threads and by records
ThreadNames == {name[c] : c \in {d \in Conns : name[d] # None}}
CacheNames == {cache[i].name : i \in 1..Len(cache)}

\* C4: the names of any two threads differ, a name is the key of at most one
\* record, and each name assigned has a number above that of every name held
\* by a thread or a record, finished ones included.
NamesUniqueIncreasing ==
    /\ [](/\ \A c, d \in Conns : (c # d /\ name[c] # None) => name[c] # name[d]
          /\ \A i, j \in 1..Len(cache) : i # j => cache[i].name # cache[j].name)
    /\ [][\A c \in Conns :
            (name[c] = None /\ name'[c] # None) =>
                \A nm \in ThreadNames \cup CacheNames :
                    NameNumber(name'[c]) > NameNumber(nm)]_vars

\* two threads started together: both hold a name that is not yet registered
TwoNamedUnregistered ==
    \E c, d \in Conns :
        /\ c # d
        /\ tpc[c] = "register" /\ name[c] \notin CacheNames
        /\ tpc[d] = "register" /\ name[d] \notin CacheNames

\* C5: a record enters the cache with finished_at unset, no record leaves, and
\* a finished_at that is set keeps its value in every later step.
FinishedOnce ==
    [][/\ Len(cache') >= Len(cache)
       /\ \A i \in 1..Len(cache') :
             IF i > Len(cache) THEN cache'[i].finished_at = NoTime
             ELSE cache[i].finished_at # NoTime
                     => cache'[i].finished_at = cache[i].finished_at]_vars

\* two sessions have finished, at different times, and a third has registered
\* since
FinishedTwice ==
    \E i, j, k \in 1..Len(cache) :
        /\ cache[i].finished_at # NoTime
        /\ cache[j].finished_at > cache[i].finished_at
        /\ cache[k].connected_at > cache[i].finished_at

\* the record registered for connection c, if any
RecordsOf(c) == {i \in 1..Len(cache) : cache[i].addr = Addr(c)}

\* C6: a thread ends only from the close step, which it reaches only from the
\* finally step; a thread at the close step or ended has its record finished,
\* and an ended thread's socket is closed.
EndsThroughClosed ==
    /\ [](\A c \in Conns :
            /\ tpc[c] \in {"close", "done"} =>
                  /\ RecordsOf(c) # {}
                  /\ \A i \in RecordsOf(c) : cache[i].finished_at # NoTime
            /\ tpc[c] = "done" => sock[c] = "closed")
    /\ [][\A c \in Conns :
            /\ (tpc[c] # "done" /\ tpc'[c] = "done") => tpc[c] = "close"
            /\ (tpc[c] # "close" /\ tpc'[c] = "close") => tpc[c] = "finally"]_vars

\* a session that ended by an error raised in a command (the file of a get
\* vanished before stat) is past its finally step
ClosedAfterError ==
    \E c \in Conns :
        /\ tpc[c] = "close"
        /\ line[c] # None
        /\ StartsWith(Lower(Strip(line[c])), GetPrefix)
        /\ wire[c] = <<>>

\* the fields of a report row: its pieces between runs of spaces
Fields(row) == SelectSeq(SplitOn(row, " "), LAMBDA f : f # <<>>)

\* what the row of record rec shows
FieldsOf(rec) ==
    << rec.name,
       rec.addr.ip \o <<":">> \o Digits(rec.addr.port),
       Digits(rec.connected_at),
       IF rec.finished_at # NoTime THEN Digits(rec.finished_at) ELSE <<"-">> >>

\* the rows of a report: its lines after the two heading lines
ReportRows(rep) == LET ls == SplitOn(rep, "\n") IN SubSeq(ls, 3, Len(ls))

RECURSIVE RowFields(_)
\* the fields of each row
RowFields(rows) ==
    IF rows = <<>> THEN <<>> ELSE <<Fields(Head(rows))>> \o RowFields(Tail(rows))

\* a report's lines as they go out between STATUS-BEGIN and STATUS-END
Framed(rep) ==
    LET ls == SplitOn(rep, "\n")
    IN  <<Encode(StatusBeginLine)>> \o [i \in 1..Len(ls) |-> Encode(ls[i])]
            \o <<Encode(StatusEndLine)>>

\* C7: the report a status command takes has one row per record of the cache
\* as it is at that one step, in insertion order, each with that record's
\* finished_at ("-" if unset), the requester's record among them; the report
\* is not touched while other sessions register and finish, and it is sent
\* whole between STATUS-BEGIN and STATUS-END.
StatusIsSnapshot ==
    [][\A c \in Conns :
          /\ (tpc[c] = "loop" /\ tpc'[c] = "status_send") =>
                /\ RowFields(ReportRows(report'[c]))
                      = [i \in 1..Len(cache) |-> FieldsOf(cache[i])]
                /\ \E i \in 1..Len(cache) : cache[i].name = name[c]
          /\ tpc[c] = "status_send" =>
                /\ report'[c] = report[c]
                /\ tpc'[c] # "status_send" =>
                      tpc'[c] = "loop" /\ wire'[c] = Framed(report[c])]_vars

\* a status reply of MAX_CLIENTS rows is on the wire; its second row shows "-"
\* for a client that has finished since the report was taken, and a further
\* client has registered since
StatusOutdated ==
    \E c \in Conns :
        /\ tpc[c] = "loop"
        /\ line[c] # None
        /\ Lower(Strip(line[c])) = StatusVerb
        /\ Len(wire[c]) = MAX_CLIENTS + 4
        /\ Fields(wire[c][5])[4] = <<"-">>
        /\ cache[2].finished_at # NoTime
        /\ Len(cache) > MAX_CLIENTS

\* "exit" in any letter case
ExitForms ==
    {<<a, b, c, d>> : a \in {"e", "E"}, b \in {"x", "X"}, c \in {"i", "I"}, d \in {"t", "T"}}

\* C8: a command loop that reads exit, in any letter case, sends BYE and
\* nothing else and goes to the finally step; from there on nothing is sent on
\* the connection until it is closed.
ExitSendsByeLast ==
    [][\A c \in Conns :
          /\ (tpc[c] = "loop" /\ line'[c] # None /\ Strip(line'[c]) \in ExitForms)
                => wire'[c] = <<Encode(ByeLine)>> /\ tpc'[c] = "finally"
          /\ (tpc[c] \in {"finally", "close"})
                => \/ wire'[c] = wire[c] /\ tpc'[c] \in {"finally", "close"}
                   \/ tpc'[c] = "done" /\ sock'[c] = "closed"]_vars

\* exit in mixed case, read after an earlier command, was answered
ExitAfterCommand ==
    \E c \in Conns :
        /\ tpc[c] = "close"
        /\ line[c] = <<"E", "x", "I", "t">>
        /\ left.lines = MaxGets - 2
        /\ wire[c] = <<Encode(ByeLine)>>

\* the line begins with the five characters "NAME "
HasNamePrefix(ln) ==
    /\ Len(ln) >= 5
    /\ ln[1] = "N" /\ ln[2] = "A" /\ ln[3] = "M" /\ ln[4] = "E" /\ ln[5] = " "

\* C9: when the handshake read returns, the session has sent NAME <name>; if
\* the line is absent or lacks the prefix "NAME " it sends the error line and
\* goes to the finally step, otherwise it sends nothing more and enters the
\* command loop; a session past the finally step never enters the loop.
HandshakeGate ==
    [][\A c \in Conns :
          /\ (tpc[c] = "handshake" /\ tpc'[c] # "handshake") =>
                IF line'[c] = None \/ ~HasNamePrefix(line'[c])
                THEN /\ tpc'[c] = "finally"
                     /\ wire'[c] = <<Encode(NamePrefix \o name[c]), Encode(ExpectedNameLine)>>
                ELSE /\ tpc'[c] = "loop"
                     /\ wire'[c] = <<Encode(NamePrefix \o name[c])>>
          /\ tpc[c] \in {"finally", "close", "done"}
                => tpc'[c] \in {"finally", "close", "done"}]_vars

\* a handshake reply of "NAME" without the space was refused, and the session
\* is past its finally step
RefusedWithoutSpace ==
    \E c \in Conns :
        /\ tpc[c] = "close"
        /\ line[c] = <<"N", "A", "M", "E">>
        /\ \A i \in RecordsOf(c) : cache[i].finished_at # NoTime

\* C10: a command loop that has read the verb get with nothing, or only
\* whitespace, after it has answered ERROR Usage: get <filename> and is back
\* at the top of the loop.
BareGetGetsUsage ==
    \A c \in Conns :
        (/\ line[c] # None
         /\ ~HasNamePrefix(line[c])
         /\ Lower(Strip(line[c])) = <<"g", "e", "t">>
         /\ sock[c] = "open")
            => tpc[c] = "loop" /\ wire[c] = <<Encode(UsageLine)>>

\* the positions of a thread inside the while loop of client_thread
InLoop == {"loop", "status_send", "get_stat", "get_stream"}

\* C11: a session inside the command loop has its record unfinished, and it
\* leaves the loop only at the read of a line, when the read returns None or
\* the line is exit; every other line taken leaves it inside the loop.
LoopLeftOnlyByExitOrEof ==
    /\ [](\A c \in Conns :
            tpc[c] \in InLoop => \A i \in RecordsOf(c) : cache[i].finished_at = NoTime)
    /\ [][\A c \in Conns :
            (tpc[c] \in InLoop /\ tpc'[c] \notin InLoop) =>
                /\ tpc[c] = "loop"
                /\ line'[c] = None \/ Strip(line'[c]) \in ExitForms]_vars

\* what a get of a file holding content writes: FILESIZE with the length of
\* content, the bytes of content, FILEEND
WholeFile(content) ==
    <<Encode(FileSizePrefix \o Digits(Len(content)))>> \o Chunks(content)
        \o <<Encode(FileEndLine)>>

\* C12: when the try block of handle_get ends on a live connection, what the
\* get has written is FILESIZE K, the K bytes the file holds, and FILEEND,
\* also when the repository changed after the size was read.
GetWritesSizeBytesEnd ==
    [][\A c \in Conns :
          (tpc[c] = "get_stream" /\ tpc'[c] # "get_stream" /\ peerOpen[c]) =>
              /\ FileAt(path[c], repo) # NoFile
              /\ wire'[c] = WholeFile(FileAt(path[c], repo))]_vars

\* the line is a get command with a filename
IsGet(ln) == ln # None /\ StartsWith(Lower(Strip(ln)), GetPrefix)

\* the filename requested, taken under REPO_DIR and resolved, is neither the
\* repository root nor below it
Escapes(filename) ==
    LET target == Resolve(JoinPath(REPO_DIR, filename))
    IN  Len(target) < Len(REPO_DIR) \/ SubSeq(target, 1, Len(REPO_DIR)) # REPO_DIR

\* C13: a session that has read a get whose filename resolves outside the
\* repository root has answered ERROR File not found and nothing else, and
\* waits for the next line.
EscapeIsNotFound ==
    \A c \in Conns :
        (tpc[c] \in InLoop /\ IsGet(line[c]) /\ Escapes(GetFilename(Cmd(line[c]))))
            => tpc[c] = "loop" /\ wire[c] = <<Encode(NotFoundLine)>>

\* the names list would return
ListedNames(files) == {list_repo_files(files)[i] : i \in 1..Len(list_repo_files(files))}

\* C14: whenever a get sends FILESIZE, the filename it was given is one of the
\* names list returns at that moment.
GetServesListedOnly ==
    [][\A c \in Conns :
          (tpc[c] = "get_stat" /\ tpc'[c] = "get_stream") =>
              GetFilename(Cmd(line[c])) \in ListedNames(repo)]_vars

\* what a connection's thread and socket hold
SessionState(c) ==
    <<tpc[c], name[c], line[c], path[c], report[c], wire[c], sock[c], peerOpen[c]>>

\* the thread of connection c takes a step
SessionStep(c) ==
    /\ tpc[c] # "none"
    /\ <<tpc'[c], name'[c], line'[c], path'[c], report'[c], wire'[c]>>
          # <<tpc[c], name[c], line[c], path[c], report[c], wire[c]>>

\* C16: a step of the thread of one connection leaves every other
\* connection's thread and socket and main's variables as they are, removes
\* no record, changes no record of another name, and changes at most
\* finished_at in the record of its own name.
SessionsContained ==
    [][\A c \in Conns :
          SessionStep(c) =>
              /\ \A d \in Conns \ {c} : SessionState(d)' = SessionState(d)
              /\ UNCHANGED <<conn, accPc, current>>
              /\ Len(cache') >= Len(cache)
              /\ \A i \in 1..Len(cache) :
                    IF cache[i].name = name[c]
                    THEN [cache'[i] EXCEPT !.finished_at = cache[i].finished_at] = cache[i]
                    ELSE cache'[i] = cache[i]]_vars

\* a peer closed in the middle of a transfer: FILESIZE and a chunk went to
\* sendall, FILEEND did not, while another session waits in its loop with its
\* record unfinished
TransferCutBesideOthers ==
    \E c, d \in Conns :
        /\ c # d
        /\ tpc[c] = "loop" /\ ~peerOpen[c]
        /\ IsGet(line[c])
        /\ Len(wire[c]) = 2
        /\ StartsWith(wire[c][1], FileSizePrefix)
        /\ tpc[d] = "loop" /\ peerOpen[d]
        /\ \A i \in RecordsOf(d) : cache[i].finished_at = NoTime

\* C18: no step removes or moves a record, and no step changes a record's
\* name, addr or connected_at; so the set of names of the cache only grows.
RecordsPersist ==
    [][/\ Len(cache') >= Len(cache)
       /\ \A i \in 1..Len(cache) :
             /\ cache'[i].name = cache[i].name
             /\ cache'[i].addr = cache[i].addr
             /\ cache'[i].connected_at = cache[i].connected_at
       /\ CacheNames \subseteq CacheNames']_vars

\* a session has ended and another has registered since: the cache holds the
\* ended one's record still, and the first records are where they were
EndedRecordsKept ==
    /\ Len(cache) > MAX_CLIENTS
    /\ \A i \in 1..(MAX_CLIENTS - 1) :
          cache[i].name = ClientName(i) /\ cache[i].connected_at = i
    /\ \E i \in 1..Len(cache) :
          /\ cache[i].finished_at # NoTime
          /\ cache[Len(cache)].connected_at > cache[i].finished_at

\* C20 as stated: the records of the cache, in insertion order, carry names of
\* strictly increasing number.
RegisteredInNameOrder ==
    \A i, j \in 1..Len(cache) :
        i < j => NameNumber(cache[i].name) < NameNumber(cache[j].name)

\* C20, amended: a thread that registers puts the record of its name behind
\* every record the cache holds, so the cache lists the records in the order
\* of the registrations; the name registered has a number above those of all
\* records before it whenever no later name was assigned before the thread
\* registered.
RegisteredInRegistrationOrder ==
    [][\A c \in Conns :
          (tpc[c] = "register" /\ tpc'[c] # "register") =>
              /\ Len(cache') = Len(cache) + 1
              /\ SubSeq(cache', 1, Len(cache)) = cache
              /\ cache'[Len(cache')].name = name[c]
              /\ NameNumber(name[c]) = client_counter =>
                    \A i \in 1..Len(cache) :
                        NameNumber(cache[i].name) < NameNumber(name[c])]_vars

\* two sessions started together and the one named later registered first:
\* the last record carries a lower number than the one before it
RegisteredOutOfNameOrder ==
    /\ Len(cache) > MAX_CLIENTS
    /\ NameNumber(cache[Len(cache)].name) < NameNumber(cache[Len(cache) - 1].name)

\* who is inside a with block
Holders == locks.counter \cup locks.cache

\* the thread of connection c, or main on the connection it accepted last,
\* takes a step that touches a socket: accept, recv, sendall or close
SocketStep(who) ==
    IF who = MainId
    THEN /\ accPc' # accPc
         /\ \/ conn' # conn
            \/ conn > 0 /\ <<wire'[conn], sock'[conn]>> # <<wire[conn], sock[conn]>>
    ELSE /\ SessionStep(who)
         /\ <<line'[who], wire'[who], sock'[who]>> # <<line[who], wire[who], sock[who]>>

\* C15: a thread inside a with block stands at the body of that block, not
\* at an accept, recv, sendall or close; no step that touches a socket is
\* taken by a thread that is inside a with block before or after it; and at
\* most one thread is inside each block.
NoSocketStepUnderLock ==
    /\ [](/\ \A c \in Conns :
               /\ c \in locks.counter => tpc[c] = "assign_locked"
               /\ c \in locks.cache =>
                     tpc[c] \in {"register_locked", "render_locked", "finally_locked"}
          /\ MainId \in locks.cache => accPc = "count_locked"
          /\ MainId \notin locks.counter
          /\ Cardinality(locks.counter) <= 1 /\ Cardinality(locks.cache) <= 1)
    /\ [][\A who \in Conns \cup {MainId} :
            SocketStep(who) => who \notin Holders /\ who \notin Holders']_vars

\* a thread is inside the with block of the cache while another waits for the
\* lock and the standing sessions wait in recv
LockHeldBesideReaders ==
    \E c, d \in Conns :
        /\ locks.cache = {c}
        /\ tpc[d] \in {"register", "render", "finally"}
        /\ \A e \in 1..(MAX_CLIENTS - 1) : tpc[e] = "loop" /\ peerOpen[e]

\* the positions of a thread that has read a command and not yet written all
\* of its reply
Answering == {"render", "render_locked", "status_send", "get_stat", "get_stream"}

\* C17: with the standing sessions waiting in recv for ever, main gets every
\* connection it accepted to a started thread or to BUSY and a closed socket
\* and is back at accept; and a session that has read a command gets to the
\* end of its reply.
IdleSessionsBlockNoOne ==
    /\ \A k \in Conns :
          (conn = k /\ accPc = "count")
              ~> (/\ conn = k /\ accPc = "accept"
                  /\ tpc[k] # "none" \/ sock[k] = "closed")
    /\ \A c \in Conns : (tpc[c] \in Answering) ~> (tpc[c] \notin Answering)
    /\ [](\A e \in 1..(MAX_CLIENTS - 1) : tpc[e] = "loop" /\ peerOpen[e])

\* the standing sessions wait in recv, the last connection was turned away,
\* and the active session has its status reply
ServedBesideIdle ==
    /\ \A e \in 1..(MAX_CLIENTS - 1) : tpc[e] = "loop" /\ peerOpen[e]
    /\ accPc = "accept"
    /\ conn = MAX_CLIENTS + 1 /\ sock[conn] = "closed" /\ tpc[conn] = "none"
    /\ tpc[MAX_CLIENTS] = "loop"
    /\ Len(wire[MAX_CLIENTS]) = Len(cache) + 4
    /\ wire[MAX_CLIENTS][Len(wire[MAX_CLIENTS])] = Encode(StatusEndLine)

\* the record made for connection c has finished_at set
Finished(c) ==
    \E i \in 1..Len(cache) : cache[i].addr = Addr(c) /\ cache[i].finished_at # NoTime

\* the peer of connection c has closed its end and the session has not closed
\* the socket yet
PeerGone(c) == sock[c] = "open" /\ ~peerOpen[c] /\ tpc[c] \notin {"none", "done"}

\* C19: once the peer of a registered session has closed, a transfer that
\* fails in sendall goes back to the command loop, the next recvline of the
\* handshake or of the loop returns None and leads to the finally block, and
\* the thread ends with the socket closed and finished_at set in its record.
DisconnectEndsSession ==
    /\ [][\A c \in Conns :
             PeerGone(c) /\ tpc[c] = "get_stream" /\ tpc'[c] # tpc[c]
                 => tpc'[c] = "loop"]_vars
    /\ [][\A c \in Conns :
             PeerGone(c) /\ tpc[c] \in {"handshake", "loop"} /\ SessionStep(c)
                 => line'[c] = None /\ tpc'[c] = "finally"]_vars
    /\ \A c \in Conns :
          PeerGone(c) ~> (tpc[c] = "done" /\ sock[c] = "closed" /\ Finished(c))

\* a session whose peer closed after a get has read None and has set
\* finished_at in its record, inside the with block of the finally clause
DisconnectSeenAndMarked ==
    \E c \in Conns :
        /\ PeerGone(c)
        /\ tpc[c] = "finally_locked" /\ c \in locks.cache
        /\ line[c] = None /\ path[c] # <<>>
        /\ Finished(c)

=============================================================================
